---- MODULE Spec2Model ----
(***************************************************************************)
(* The asynchronous product import pipeline of products/tasks.py and the   *)
(* job endpoints of products/views.py: upload_file creates a job in the    *)
(* Redis tracker and enqueues import_products_task, which parses and       *)
(* dedupes the CSV, splits it into chunks and dispatches a Celery chord of *)
(* process_batch units with finalize_import as the callback.               *)
(*                                                                         *)
(* Text values (sku, name, description) are sequences of characters so     *)
(* that strip() and lower() are computed, not assumed.                     *)
(***************************************************************************)
EXTENDS Integers, Sequences, FiniteSets, TLC

\* ------------------------------------------------------------------ bounds
\* Number of job identifiers upload_file can hand out.
MaxJobs == 2
\* Number of jobs whose pipeline may be in flight at the same time.
MaxActive == 1
\* Number of exceptions (file, store or Redis errors) the environment raises.
MaxFaults == 4
\* Number of rows of a reader handed to the parsing code on its own.
MaxRows == 5

\* ------------------------------------------------------- program constants
\* tasks.py:15 CHUNK_SIZE = 1000, scaled down so that a three-row file is
\* split into two work units.
CHUNK_SIZE == 2
\* tasks.py:18 and tasks.py:99, max_retries=3 of both retried tasks.
max_retries == 3

Jobs == 1..MaxJobs

\* --------------------------------------------------------------- text model
\* str.lower() on one character.
LowerChar(c) ==
    CASE c = "A" -> "a"
      [] c = "B" -> "b"
      [] c = "C" -> "c"
      [] c = "S" -> "s"
      [] c = "K" -> "k"
      [] c = "U" -> "u"
      [] OTHER -> c

\* str.lower()
Lower(s) == [i \in 1..Len(s) |-> LowerChar(s[i])]

RECURSIVE LStrip(_)
LStrip(s) == IF s # <<>> /\ Head(s) = " " THEN LStrip(Tail(s)) ELSE s

RECURSIVE RStrip(_)
RStrip(s) ==
    IF s # <<>> /\ s[Len(s)] = " " THEN RStrip(SubSeq(s, 1, Len(s) - 1)) ELSE s

\* str.strip()
Strip(s) == RStrip(LStrip(s))

\* row.get(k): None (falsy, modelled as the empty text) when the column is absent.
Get(row, k) == IF k \in DOMAIN row THEN row[k] ELSE <<>>

\* Python's `a or b` on text values.
Or(a, b) == IF a # <<>> THEN a ELSE b

\* --------------------------------------------------------------- CSV files
\* Rows as csv.DictReader yields them: one dict per line, keyed by the header.
FileThree ==
    << [sku |-> <<"a", "1">>, name |-> <<"W">>, description |-> <<"x">>],
       [sku |-> <<"b", "1">>, name |-> <<"X">>, description |-> <<>>],
       [sku |-> <<"c", "1">>, name |-> <<"Y">>, description |-> <<"y">>] >>

FileDup ==
    << [SKU |-> <<" ", "A", "1", " ">>, Name |-> <<"W">>, Description |-> <<>>],
       [SKU |-> <<"a", "1">>, Name |-> <<"V", " ">>, Description |-> <<"z">>] >>

FileEmpty ==
    << [sku |-> <<"S", "K", "U">>, name |-> <<"n">>, description |-> <<>>],
       [sku |-> <<" ">>, name |-> <<"W">>, description |-> <<>>],
       [Key |-> <<"a", "1">>, name |-> <<"W">>, description |-> <<>>] >>

FileOverlap ==
    << [Sku |-> <<"B", "1">>, name |-> <<"Z">>, description |-> <<>>],
       [Sku |-> <<"d", "1">>, name |-> <<"W">>, description |-> <<>>],
       [Sku |-> <<"b", "1">>, name |-> <<"Q">>, description |-> <<"q">>] >>

\* The uploaded files, by path.
FileContent ==
    [three |-> FileThree, dup |-> FileDup, empty |-> FileEmpty, overlap |-> FileOverlap]

Paths == DOMAIN FileContent

\* ------------------------------------------------- import_products_task pure
\* Lines 39-49: the record a row contributes as a one-element sequence, or
\* the empty sequence when the loop takes `continue`.
ParseRow(row) ==
    LET sku_raw == Strip(Or(Get(row, "sku"), Or(Get(row, "SKU"), Get(row, "Sku"))))
        sku == Lower(sku_raw)
    IN  IF sku_raw = <<>> THEN <<>>
        ELSE IF sku = <<"s", "k", "u">> THEN <<>>
        ELSE << [sku |-> sku,
                 name |-> Strip(Or(Get(row, "name"), Get(row, "Name"))),
                 description |->
                     Strip(Or(Get(row, "description"), Get(row, "Description")))] >>

\* Faulty variant of DictPut: a key that is present keeps its first value.
DictPutKeepsFirst(m, rec) ==
    IF \E i \in 1..Len(m) : m[i].sku = rec.sku THEN m ELSE Append(m, rec)

\* unique_map[sku] = rec on an insertion-ordered dict: an existing key keeps
\* its position and takes the new value, a new key is appended.
DictPut(m, rec) ==
    IF \E i \in 1..Len(m) : m[i].sku = rec.sku
    THEN [i \in 1..Len(m) |-> IF m[i].sku = rec.sku THEN rec ELSE m[i]]
    ELSE Append(m, rec)

RECURSIVE DedupeLoop(_, _)
DedupeLoop(rows, m) ==
    IF rows = <<>> THEN m
    ELSE LET rec == ParseRow(Head(rows))
         IN  DedupeLoop(Tail(rows), IF rec = <<>> THEN m ELSE DictPut(m, rec[1]))

\* Lines 35-51: unique_rows.
UniqueRows(rows) == DedupeLoop(rows, <<>>)

RECURSIVE ChunkLoop(_, _, _)
ChunkLoop(rows, batch, chunks) ==
    IF rows = <<>>
    THEN IF batch # <<>> THEN Append(chunks, batch) ELSE chunks
    ELSE LET b == Append(batch, Head(rows))
         IN  IF Len(b) >= CHUNK_SIZE
             THEN ChunkLoop(Tail(rows), <<>>, Append(chunks, b))
             ELSE ChunkLoop(Tail(rows), b, chunks)

\* Faulty variant of Chunks: the rest that does not fill a chunk is dropped
\* (lines 75-76 left out).
ChunksWithoutRest(unique_rows) ==
    SelectSeq(ChunkLoop(unique_rows, <<>>, <<>>), LAMBDA c : Len(c) = CHUNK_SIZE)

\* Lines 67-76: chunks.
Chunks(unique_rows) == ChunkLoop(unique_rows, <<>>, <<>>)

\* What one run of lines 34-76 computes from the file at each path.
UniqueRowsOf == [path \in Paths |-> UniqueRows(FileContent[path])]

ChunksOf == [path \in Paths |-> Chunks(UniqueRowsOf[path])]

\* ------------------------------------------------------------------- store
\* Faulty variant of UpsertRow: the update appends the new description to the
\* stored one.
UpsertRowAccumulates(st, r) ==
    IF \E p \in st : p.sku = r.sku
    THEN {IF p.sku = r.sku
          THEN [p EXCEPT !.name = r.name, !.description = @ \o r.description]
          ELSE p : p \in st}
    ELSE st \cup {[sku |-> r.sku, name |-> r.name,
                   description |-> r.description, active |-> TRUE]}

\* Product.objects.bulk_create(..., update_conflicts=True,
\* update_fields=[name, description], unique_fields=[sku]) for one row:
\* INSERT ... ON CONFLICT (sku) DO UPDATE SET name, description.
UpsertRow(st, r) ==
    IF \E p \in st : p.sku = r.sku
    THEN {IF p.sku = r.sku
          THEN [p EXCEPT !.name = r.name, !.description = r.description]
          ELSE p : p \in st}
    ELSE st \cup {[sku |-> r.sku, name |-> r.name,
                   description |-> r.description, active |-> TRUE]}

\* Faulty variant of CiConflict: the table has no unique_sku_ci constraint.
CiConflictUnchecked(st, r) == FALSE

\* A row violates the unique_sku_ci constraint (models.py:15) when another
\* stored sku is equal ignoring case but not equal: ON CONFLICT (sku) does not
\* cover that index and the statement raises IntegrityError.
CiConflict(st, r) == \E p \in st : p.sku # r.sku /\ Lower(p.sku) = Lower(r.sku)

\* Faulty variant of BulkCreate: rows with the keys of the batch are deleted
\* and the batch is inserted, so every field takes its default.
BulkCreateReplaces(st, batch) ==
    {p \in st : \A i \in 1..Len(batch) : batch[i].sku # p.sku}
        \cup {[sku |-> batch[i].sku, name |-> batch[i].name,
                description |-> batch[i].description, active |-> TRUE] :
                    i \in 1..Len(batch)}

RECURSIVE BulkCreate(_, _)
BulkCreate(st, batch) ==
    IF batch = <<>> THEN st ELSE BulkCreate(UpsertRow(st, Head(batch)), Tail(batch))

RECURSIVE BulkCreateRaises(_, _)
BulkCreateRaises(st, batch) ==
    IF batch = <<>> THEN FALSE
    ELSE CiConflict(st, Head(batch))
         \/ BulkCreateRaises(UpsertRow(st, Head(batch)), Tail(batch))

\* ------------------------------------------------------------------- state
VARIABLES
    status,      \* Redis job:<id>:status
    progress,    \* Redis job:<id>:progress
    message,     \* Redis job:<id>:message
    processed,   \* Redis job:<id>:processed
    total,       \* Redis job:<id>:total
    filepath,    \* Redis job:<id>:filepath
    store,       \* the Product table
    master,      \* import_products_task of each job: position and request.retries
    units,       \* process_batch signatures of each job's chord header
    chord,       \* the chord bookkeeping of the Redis result backend
    fin,         \* finalize_import of each job
    posts,       \* the requests.post calls of each job's _trigger_webhooks
    faults,      \* exceptions the environment has raised so far
    reader,      \* rows of a csv.DictReader handed to lines 34-76 on their own
    deduped,     \* unique_rows computed from reader
    header,      \* the chunks computed from deduped
    applied,     \* positions of the chunks of header already written to the store
    step         \* how far the run on reader has come

\* The variables of a run of the parsing, chunking and upsert code on its own.
locals == <<reader, deduped, header, applied, step>>

vars == <<status, progress, message, processed, total, filepath, store,
          master, units, chord, fin, posts, faults, locals>>

\* A key that was never set: _r.get returns None.
NilStr == "nil"
NilInt == -1

\* int(processed * 100 / total_rows), line 128.
Percent(p, t) == (p * 100) \div t

\* Nothing was uploaded and the store is empty.
InitPipeline ==
    /\ status = [j \in Jobs |-> NilStr]
    /\ progress = [j \in Jobs |-> NilInt]
    /\ message = [j \in Jobs |-> <<>>]
    /\ processed = [j \in Jobs |-> NilInt]
    /\ total = [j \in Jobs |-> NilInt]
    /\ filepath = [j \in Jobs |-> NilStr]
    /\ store = {}
    /\ master = [j \in Jobs |-> [pc |-> "none", retries |-> 0]]
    /\ units = [j \in Jobs |-> <<>>]
    /\ chord = [j \in Jobs |-> [state |-> "none", size |-> 0, parts |-> <<>>]]
    /\ fin = [j \in Jobs |-> [pc |-> "none", results |-> <<>>, runs |-> 0]]
    /\ posts = [j \in Jobs |-> <<>>]
    /\ faults = 0

Init ==
    /\ InitPipeline
    /\ reader = <<>> /\ deduped = <<>> /\ header = <<>> /\ applied = {}
    /\ step = "idle"

\* The environment may raise one more exception.
CanFault == faults < MaxFaults

\* A job is in flight while one of its tasks is queued or running.
InFlight(j) ==
    \/ master[j].pc \in {"queued", "parsing"}
    \/ \E u \in 1..Len(units[j]) : units[j][u].pc \notin {"done", "failed"}
    \/ fin[j].pc \in {"queued", "status", "progress", "message"}

\* ------------------------------------------------------------- upload_file
\* views.py:38-56. uuid4 yields an identifier no job has used.
upload_file(j, path) ==
    /\ status[j] = NilStr
    /\ \A i \in Jobs : i < j => status[i] # NilStr
    /\ Cardinality({i \in Jobs : InFlight(i)}) < MaxActive
    /\ status' = [status EXCEPT ![j] = "queued"]
    /\ progress' = [progress EXCEPT ![j] = 0]
    /\ message' = [message EXCEPT ![j] = <<"Queued">>]
    /\ processed' = [processed EXCEPT ![j] = 0]
    /\ filepath' = [filepath EXCEPT ![j] = path]
    /\ master' = [master EXCEPT ![j] = [pc |-> "queued", retries |-> 0]]
    /\ UNCHANGED locals
    /\ UNCHANGED <<posts, total, store, units, chord, fin, faults>>

\* ------------------------------------------------------------ retry_import
\* Faulty variant of retry_import: the original job is queued again as well.
retry_import_requeues_original(j, k) ==
    /\ filepath[j] # NilStr
    /\ status[k] = NilStr
    /\ \A i \in Jobs : i < k => status[i] # NilStr
    /\ Cardinality({i \in Jobs : InFlight(i)}) < MaxActive
    /\ status' = [status EXCEPT ![k] = "queued", ![j] = "queued"]
    /\ progress' = [progress EXCEPT ![k] = 0, ![j] = 0]
    /\ message' = [message EXCEPT ![k] = <<"Queued (retry)">>]
    /\ processed' = [processed EXCEPT ![k] = 0, ![j] = 0]
    /\ filepath' = [filepath EXCEPT ![k] = filepath[j]]
    /\ master' = [master EXCEPT ![k] = [pc |-> "queued", retries |-> 0]]
    /\ UNCHANGED locals
    /\ UNCHANGED <<posts, total, store, units, chord, fin, faults>>

\* views.py:77-103 for the job id j: the stored filepath is read and a new job
\* k is created on the same file. No code removes an uploaded file, so
\* os.path.exists holds for every stored filepath.
retry_import(j, k) ==
    /\ filepath[j] # NilStr
    /\ status[k] = NilStr
    /\ \A i \in Jobs : i < k => status[i] # NilStr
    /\ Cardinality({i \in Jobs : InFlight(i)}) < MaxActive
    /\ status' = [status EXCEPT ![k] = "queued"]
    /\ progress' = [progress EXCEPT ![k] = 0]
    /\ message' = [message EXCEPT ![k] = <<"Queued (retry)">>]
    /\ processed' = [processed EXCEPT ![k] = 0]
    /\ filepath' = [filepath EXCEPT ![k] = filepath[j]]
    /\ master' = [master EXCEPT ![k] = [pc |-> "queued", retries |-> 0]]
    /\ UNCHANGED locals
    /\ UNCHANGED <<posts, total, store, units, chord, fin, faults>>

\* views.py:85-87 and 100: the HTTP code of the answer for the job id j.
RetryImportResponse(j) == IF filepath[j] = NilStr THEN 400 ELSE 200

\* views.py:85-87: no filepath is stored under the id; the view answers 400
\* and creates nothing.
retry_import_not_found(j) ==
    /\ filepath[j] = NilStr
    /\ UNCHANGED vars

\* -------------------------------------------------------------- job_status
\* Faulty variant of JobStatusResponse: the values are returned as read.
JobStatusResponseRaw(j) ==
    [code |-> IF progress[j] = NilInt THEN 500 ELSE 200,
     status |-> status[j], progress |-> progress[j], message |-> message[j]]

\* views.py:65-72: the JSON body and the HTTP code. A key that is not set
\* reads as None, which `or` replaces by the default.
JobStatusResponse(j) ==
    [code |-> 200,
     status |-> IF status[j] = NilStr THEN "unknown" ELSE status[j],
     progress |-> IF progress[j] = NilInt THEN 0 ELSE progress[j],
     message |-> message[j]]

\* views.py:63-74: the view only reads.
job_status(j) ==
    /\ JobStatusResponse(j).code = 200
    /\ UNCHANGED vars

\* ---------------------------------------------------- import_products_task
\* tasks.py:29-32: a worker picks the task up and publishes "parsing".
import_start(j) ==
    /\ master[j].pc = "queued"
    /\ status' = [status EXCEPT ![j] = "parsing"]
    /\ progress' = [progress EXCEPT ![j] = 0]
    /\ message' = [message EXCEPT ![j] = <<"Parsing CSV">>]
    /\ master' = [master EXCEPT ![j].pc = "parsing"]
    /\ UNCHANGED locals
    /\ UNCHANGED <<posts, processed, total, filepath, store, units, chord, fin, faults>>

\* The process_batch signature of one chunk as the chord header holds it.
\* retries is request.retries and processed the local variable of line 127;
\* applied and fails record history: whether bulk_create has run for the unit,
\* and how many of its executions raised.
\* countdown is the delay in seconds of the latest self.retry (0: none yet).
NewUnit(chunk) ==
    [batch |-> chunk, pc |-> "queued", retries |-> 0, processed |-> 0,
     applied |-> FALSE, fails |-> 0, countdown |-> 0]

\* Faulty variant of IsEmpty: the test never succeeds.
IsEmptyNever(total_rows) == total_rows < 0

\* tasks.py:54: if total_rows <= 0.
IsEmpty(total_rows) == total_rows <= 0

\* tasks.py:54-58: no valid row.
import_empty(j) ==
    /\ master[j].pc = "parsing"
    /\ IsEmpty(Len(UniqueRowsOf[filepath[j]]))
    /\ status' = [status EXCEPT ![j] = "failed"]
    /\ message' = [message EXCEPT ![j] = <<"Empty file or invalid">>]
    /\ master' = [master EXCEPT ![j].pc = "done"]
    /\ UNCHANGED locals
    /\ UNCHANGED <<posts, progress, processed, total, filepath, store, units, chord, fin, faults>>

\* Faulty variant of import_dispatch: after the chord was dispatched the task
\* is sent again, as if a statement after line 82 had raised.
import_dispatch_requeues(j) ==
    LET total_rows == Len(UniqueRowsOf[filepath[j]])
        chunks == ChunksOf[filepath[j]]
    IN  /\ master[j].pc = "parsing"
        /\ ~IsEmpty(total_rows)
        /\ status' = [status EXCEPT ![j] = "processing"]
        /\ progress' = [progress EXCEPT ![j] = 0]
        /\ message' = [message EXCEPT ![j] = <<"Starting import">>]
        /\ processed' = [processed EXCEPT ![j] = 0]
        /\ total' = [total EXCEPT ![j] = total_rows]
        /\ units' = [units EXCEPT ![j] = [i \in 1..Len(chunks) |-> NewUnit(chunks[i])]]
        /\ chord' = [chord EXCEPT ![j] =
                        [state |-> "open", size |-> Len(chunks), parts |-> <<>>]]
        /\ master' = [master EXCEPT ![j] =
                        IF master[j].retries + 1 > max_retries
                        THEN [pc |-> "done", retries |-> master[j].retries]
                        ELSE [pc |-> "queued", retries |-> master[j].retries + 1]]
        /\ UNCHANGED locals
        /\ UNCHANGED <<posts, filepath, store, fin, faults>>

\* tasks.py:60-85: publish the counters, chunk, dispatch the chord.
import_dispatch(j) ==
    LET total_rows == Len(UniqueRowsOf[filepath[j]])
        chunks == ChunksOf[filepath[j]]
    IN  /\ master[j].pc = "parsing"
        /\ ~IsEmpty(total_rows)
        /\ status' = [status EXCEPT ![j] = "processing"]
        /\ progress' = [progress EXCEPT ![j] = 0]
        /\ message' = [message EXCEPT ![j] = <<"Starting import">>]
        /\ processed' = [processed EXCEPT ![j] = 0]
        /\ total' = [total EXCEPT ![j] = total_rows]
        /\ units' = [units EXCEPT ![j] = [i \in 1..Len(chunks) |-> NewUnit(chunks[i])]]
        /\ chord' = [chord EXCEPT ![j] =
                        [state |-> "open", size |-> Len(chunks), parts |-> <<>>]]
        /\ master' = [master EXCEPT ![j].pc = "done"]
        /\ UNCHANGED locals
        /\ UNCHANGED <<posts, filepath, store, fin, faults>>

\* tasks.py:87-96: open() raises. The handler publishes "failed" and calls
\* self.retry, which re-queues the task while request.retries < max_retries
\* and otherwise re-raises the exception.
import_fail(j) ==
    /\ master[j].pc = "parsing"
    /\ CanFault
    /\ faults' = faults + 1
    /\ status' = [status EXCEPT ![j] = "failed"]
    /\ message' = [message EXCEPT ![j] = <<"error">>]
    /\ master' = [master EXCEPT ![j] =
                    IF master[j].retries + 1 > max_retries
                    THEN [pc |-> "done", retries |-> master[j].retries]
                    ELSE [pc |-> "queued", retries |-> master[j].retries + 1]]
    /\ UNCHANGED locals
    /\ UNCHANGED <<posts, progress, processed, total, filepath, store, units, chord, fin>>

\* ------------------------------------------------------------ Celery chord
\* Faulty variant of ChordReady: the chord closes on the first part.
ChordReadyOnFirstPart(parts, size) == Len(parts) >= 1

\* chord(header)(callback), tasks.py:80-82, on the Redis result backend
\* (celery.py:13). Every header task that ends, by returning or by raising,
\* reports one part [unit, state, result]; the part that makes the count
\* reach the header size closes the chord.
ChordReady(parts, size) == Len(parts) = size

\* The callback is applied only to a header without a raised part; any
\* FAILURE part makes the backend raise ChordError instead of calling it.
ChordUnpackOK(parts) == \A i \in 1..Len(parts) : parts[i].state = "SUCCESS"

\* The parts are kept ordered by the position of the unit in the header
\* (the backend stores them in a sorted set scored by group index).
InsertPart(parts, part) ==
    LET k == Cardinality({i \in 1..Len(parts) : parts[i].unit <= part.unit})
    IN  SubSeq(parts, 1, k) \o <<part>> \o SubSeq(parts, k + 1, Len(parts))

\* on_chord_part_return for one report. The part that completes the count
\* closes the chord: the parts are handed to the callback (state "called") or
\* ChordError is raised (state "error"). A report that arrives after the close
\* never matches the count again and calls nothing.
ChordPartReturn(ch, u, st, result) ==
    IF ch.state # "open" THEN ch
    ELSE LET parts == InsertPart(ch.parts, [unit |-> u, state |-> st, result |-> result])
         IN  IF ChordReady(parts, ch.size)
             THEN [ch EXCEPT !.parts = parts,
                             !.state = IF ChordUnpackOK(parts) THEN "called" ELSE "error"]
             ELSE [ch EXCEPT !.parts = parts]

\* finalize_import.s(job_id) is applied to the results when the chord closes
\* without error.
ChordCallback(f, ch) ==
    IF ch.state = "called" /\ f.pc = "none"
    THEN [f EXCEPT !.pc = "queued",
                   !.results = [i \in 1..Len(ch.parts) |-> ch.parts[i].result]]
    ELSE f

\* A closed chord no longer reads its parts.
ChordDelete(ch) == IF ch.state = "open" THEN ch ELSE [ch EXCEPT !.parts = <<>>]

\* ----------------------------------------------------------- process_batch
\* tasks.py:114-125: the bulk upsert succeeds.
batch_create(j, u) ==
    /\ u \in DOMAIN units[j]
    /\ units[j][u].pc = "queued"
    /\ ~BulkCreateRaises(store, units[j][u].batch)
    /\ store' = BulkCreate(store, units[j][u].batch)
    /\ units' = [units EXCEPT ![j][u].pc = "created", ![j][u].applied = TRUE]
    /\ UNCHANGED locals
    /\ UNCHANGED <<posts, status, progress, message, processed, total, filepath,
                   master, chord, fin, faults>>

\* Faulty variant of IncrBy: the counter is overwritten (SET) with the unit's
\* count instead of being incremented.
IncrByOverwrites(value, n) == n

\* Redis INCRBY: one atomic read-modify-write returning the new value.
IncrBy(value, n) == value + n

\* tasks.py:127: processed = _r.incrby(...).
batch_incr(j, u) ==
    /\ u \in DOMAIN units[j]
    /\ units[j][u].pc = "created"
    /\ processed' = [processed EXCEPT ![j] = IncrBy(@, Len(units[j][u].batch))]
    /\ units' = [units EXCEPT ![j][u].pc = "incremented",
                              ![j][u].processed = processed'[j]]
    /\ UNCHANGED locals
    /\ UNCHANGED <<posts, status, progress, message, total, filepath, store,
                   master, chord, fin, faults>>

\* tasks.py:128: the progress write, from the value incrby returned and the
\* total_rows argument of the signature.
batch_progress(j, u) ==
    /\ u \in DOMAIN units[j]
    /\ units[j][u].pc = "incremented"
    /\ progress' = [progress EXCEPT ![j] = Percent(units[j][u].processed, total[j])]
    /\ units' = [units EXCEPT ![j][u].pc = "published"]
    /\ UNCHANGED locals
    /\ UNCHANGED <<posts, status, message, processed, total, filepath, store,
                   master, chord, fin, faults>>

\* tasks.py:129-131: the message write and the return of len(curr_products),
\* which the worker reports to the chord as a SUCCESS part.
batch_return(j, u) ==
    /\ u \in DOMAIN units[j]
    /\ units[j][u].pc = "published"
    /\ message' = [message EXCEPT ![j] =
                      <<"Processed", units[j][u].processed, total[j]>>]
    /\ units' = [units EXCEPT ![j][u].pc = "done", ![j][u].processed = 0]
    /\ LET ch == ChordPartReturn(chord[j], u, "SUCCESS", Len(units[j][u].batch))
       IN  /\ fin' = [fin EXCEPT ![j] = ChordCallback(fin[j], ch)]
           /\ chord' = [chord EXCEPT ![j] = ChordDelete(ch)]
    /\ UNCHANGED locals
    /\ UNCHANGED <<posts, status, progress, processed, total, filepath, store, master, faults>>

\* bulk_create raises IntegrityError whatever the environment does.
BatchMustRaise(j, u) ==
    units[j][u].pc = "queued" /\ BulkCreateRaises(store, units[j][u].batch)

\* The statement of the try block that raises, by position: bulk_create at
\* "queued" (always when the case-insensitive index is violated), incrby at
\* "created", the progress write at "incremented", the message write at
\* "published".
BatchRaises(j, u) ==
    \/ BatchMustRaise(j, u)
    \/ units[j][u].pc \in {"queued", "created", "incremented", "published"} /\ CanFault

\* Faulty variant of Countdown: the fixed default_retry_delay of tasks.py:99.
CountdownFixed(retries) == 5

\* countdown=2 ** self.request.retries, tasks.py:137.
Countdown(retries) == 2 ^ retries

\* Faulty variant of RetryUnit: the signature is never sent again.
RetryUnitGivesUp(unit) == [unit EXCEPT !.pc = "failed", !.processed = 0, !.fails = @ + 1]

\* Task.retry, tasks.py:137: the signature is sent again with retries + 1
\* while request.retries < max_retries; then Retry is raised. Past the cap
\* the original exception is raised and nothing is sent.
RetryUnit(unit) ==
    IF unit.retries + 1 > max_retries
    THEN [unit EXCEPT !.pc = "failed", !.processed = 0, !.fails = @ + 1]
    ELSE [unit EXCEPT !.pc = "queued", !.retries = unit.retries + 1,
                      !.processed = 0, !.fails = @ + 1,
                      !.countdown = Countdown(unit.retries)]

\* Faulty variant of batch_fail: the handler also resets the job's counter.
batch_fail_resets_counter(j, u) ==
    /\ u \in DOMAIN units[j]
    /\ BatchRaises(j, u)
    /\ faults' = IF BatchMustRaise(j, u) THEN faults ELSE faults + 1
    /\ units' = [units EXCEPT ![j][u] = RetryUnit(units[j][u])]
    /\ processed' = [processed EXCEPT ![j] = 0]
    /\ LET ch == ChordPartReturn(chord[j], u, "FAILURE", "exc")
       IN  /\ fin' = [fin EXCEPT ![j] = ChordCallback(fin[j], ch)]
           /\ chord' = [chord EXCEPT ![j] = ChordDelete(ch)]
    /\ UNCHANGED locals
    /\ UNCHANGED <<posts, status, progress, message, total, filepath, store, master>>

\* tasks.py:133-140: the handler. `except Retry` only logs, and the bare
\* `raise` that follows re-raises the original exception in both cases, so
\* this execution ends in FAILURE and reports a FAILURE part to the chord
\* whether or not a retry was sent.
batch_fail(j, u) ==
    /\ u \in DOMAIN units[j]
    /\ BatchRaises(j, u)
    /\ faults' = IF BatchMustRaise(j, u) THEN faults ELSE faults + 1
    /\ units' = [units EXCEPT ![j][u] = RetryUnit(units[j][u])]
    /\ LET ch == ChordPartReturn(chord[j], u, "FAILURE", "exc")
       IN  /\ fin' = [fin EXCEPT ![j] = ChordCallback(fin[j], ch)]
           /\ chord' = [chord EXCEPT ![j] = ChordDelete(ch)]
    /\ UNCHANGED locals
    /\ UNCHANGED <<posts, status, progress, message, processed, total, filepath, store, master>>

\* --------------------------------------------------------- finalize_import
\* sum(results) raises TypeError on a result that is not a number.
SumRaises(results) == \E i \in 1..Len(results) : results[i] \notin Nat

RECURSIVE Sum(_)
Sum(results) == IF results = <<>> THEN 0 ELSE Head(results) + Sum(Tail(results))

\* tasks.py:157-158: aggregate and publish "complete".
finalize_start(j) ==
    /\ fin[j].pc = "queued"
    /\ ~SumRaises(fin[j].results)
    /\ status' = [status EXCEPT ![j] = "complete"]
    /\ fin' = [fin EXCEPT ![j].pc = "status", ![j].runs = @ + 1]
    /\ UNCHANGED locals
    /\ UNCHANGED <<posts, progress, message, processed, total, filepath, store,
                   master, units, chord, faults>>

\* tasks.py:159
finalize_progress(j) ==
    /\ fin[j].pc = "status"
    /\ progress' = [progress EXCEPT ![j] = 100]
    /\ fin' = [fin EXCEPT ![j].pc = "progress"]
    /\ UNCHANGED locals
    /\ UNCHANGED <<posts, status, message, processed, total, filepath, store,
                   master, units, chord, faults>>

\* tasks.py:160
finalize_message(j) ==
    /\ fin[j].pc = "progress"
    /\ message' = [message EXCEPT ![j] = <<"Import complete", Sum(fin[j].results)>>]
    /\ fin' = [fin EXCEPT ![j].pc = "message"]
    /\ UNCHANGED locals
    /\ UNCHANGED <<posts, status, progress, processed, total, filepath, store,
                   master, units, chord, faults>>

\* The Webhook table (models.py:22-37); its management views are left out.
Webhooks ==
    { [id |-> 1, event_type |-> "product_imported", is_enabled |-> TRUE],
      [id |-> 2, event_type |-> "product_imported", is_enabled |-> TRUE],
      [id |-> 3, event_type |-> "product_imported", is_enabled |-> FALSE],
      [id |-> 4, event_type |-> "product_created", is_enabled |-> TRUE] }

\* What requests.post does: it returns a response (of any status code) or
\* raises (connection error, timeout).
Outcomes == {"response", "exception"}

\* Webhook.objects.filter(event_type=event, is_enabled=True), tasks.py:173,
\* as the ids in primary key order.
FilterHooks(event) ==
    LET ids == {h.id : h \in {w \in Webhooks : w.event_type = event /\ w.is_enabled}}
        RECURSIVE Ordered(_)
        Ordered(S) ==
            IF S = {} THEN <<>>
            ELSE LET m == CHOOSE x \in S : \A y \in S : x <= y
                 IN  <<m>> \o Ordered(S \ {m})
    IN  Ordered(ids)

\* Faulty variant of finalize_webhooks: an exception of requests.post is not
\* caught in the loop and reaches the handler of finalize_import.
finalize_webhooks_propagates(j) ==
    /\ fin[j].pc = "message"
    /\ \E outcome \in [1..Len(FilterHooks("product_imported")) -> Outcomes] :
          /\ posts' = [posts EXCEPT ![j] =
                [i \in 1..Len(FilterHooks("product_imported")) |->
                    [hook |-> FilterHooks("product_imported")[i],
                     payload |-> Sum(fin[j].results), outcome |-> outcome[i]]]]
          /\ IF \E i \in DOMAIN outcome : outcome[i] = "exception"
             THEN /\ status' = [status EXCEPT ![j] = "failed"]
                  /\ message' = [message EXCEPT ![j] = <<"error">>]
             ELSE UNCHANGED <<status, message>>
    /\ fin' = [fin EXCEPT ![j].pc = "done", ![j].results = <<>>]
    /\ UNCHANGED locals
    /\ UNCHANGED <<progress, processed, total, filepath, store,
                   master, units, chord, faults>>

\* tasks.py:162-163 with _trigger_webhooks, tasks.py:171-184: one
\* requests.post per enabled hook of the event, in order; an exception of a
\* post is caught inside the loop and only logged, and the loop goes on to
\* the next hook. Then finalize_import returns.
finalize_webhooks(j) ==
    /\ fin[j].pc = "message"
    /\ \E outcome \in [1..Len(FilterHooks("product_imported")) -> Outcomes] :
          posts' = [posts EXCEPT ![j] =
                [i \in 1..Len(FilterHooks("product_imported")) |->
                    [hook |-> FilterHooks("product_imported")[i],
                     payload |-> Sum(fin[j].results), outcome |-> outcome[i]]]]
    /\ fin' = [fin EXCEPT ![j].pc = "done", ![j].results = <<>>]
    /\ UNCHANGED locals
    /\ UNCHANGED <<status, progress, message, processed, total, filepath, store,
                   master, units, chord, faults>>

\* tasks.py:164-168: a statement of the try block raises (sum on a result
\* that is not a number, a Redis write, or the query of _trigger_webhooks);
\* the handler publishes "failed".
finalize_fail(j) ==
    /\ fin[j].pc \in {"queued", "status", "progress", "message"}
    /\ CanFault
    /\ faults' = faults + 1
    /\ status' = [status EXCEPT ![j] = "failed"]
    /\ message' = [message EXCEPT ![j] = <<"error">>]
    /\ fin' = [fin EXCEPT ![j].pc = "done", ![j].results = <<>>,
                          ![j].runs = IF fin[j].pc = "queued" THEN @ + 1 ELSE @]
    /\ UNCHANGED locals
    /\ UNCHANGED <<posts, progress, processed, total, filepath, store, master, units, chord>>

\* ------------------------------------- parsing, chunking and upsert alone
\* One run of lines 34-76 of import_products_task on an arbitrary reader and
\* the bulk_create of process_batch on its chunks, in any order, next to
\* product_create; the tracker and the tasks stay as constructed.
tracker == <<status, progress, message, processed, total, filepath,
             master, units, chord, fin, posts, faults>>

\* The rows a reader can yield: five keys, one of them in two spellings and
\* under two sets of column names, and a header-like row.
RowSet ==
    { [sku |-> <<"a", "1">>, name |-> <<"W">>, description |-> <<"x">>],
      [SKU |-> <<" ", "A", "1", " ">>, Name |-> <<"V", " ">>, Description |-> <<>>],
      [sku |-> <<"b", "1">>, name |-> <<"X">>, description |-> <<>>],
      [Sku |-> <<"C", "1">>, name |-> <<"Y">>, description |-> <<"y">>],
      [sku |-> <<"k", "1">>, name |-> <<"Z">>, description |-> <<>>],
      [sku |-> <<"u", "1">>, name |-> <<"Q">>, description |-> <<"q">>],
      [sku |-> <<"S", "k", "u">>, name |-> <<"n">>, description |-> <<>>] }

Readers == UNION {[1..n -> RowSet] : n \in 0..MaxRows}

\* The products a user submits through ProductForm (forms.py:9-12): one
\* whose sku differs from an imported key only by case, one inactive.
FormProducts ==
    { [sku |-> <<"A", "1">>, name |-> <<"M">>, description |-> <<>>, active |-> TRUE],
      [sku |-> <<"b", "1">>, name |-> <<"M">>, description |-> <<"m">>, active |-> FALSE] }

DataInit ==
    /\ InitPipeline
    /\ reader \in Readers
    /\ deduped = <<>> /\ header = <<>> /\ applied = {}
    /\ step = "read"

\* views.py:149-151: form.is_valid() rejects a sku that is stored already
\* (unique=True, models.py:7) or that differs from a stored one only by case
\* (unique_sku_ci, models.py:15); form.save() inserts the row.
product_create(p) ==
    /\ step # "idle"
    /\ ~\E q \in store : q.sku = p.sku
    /\ ~CiConflict(store, p)
    /\ store' = store \cup {p}
    /\ UNCHANGED tracker
    /\ UNCHANGED locals

\* tasks.py:34-52: the dedupe loop over the reader.
dedupe_rows ==
    /\ step = "read"
    /\ deduped' = UniqueRows(reader)
    /\ step' = "deduped"
    /\ UNCHANGED tracker
    /\ UNCHANGED <<store, reader, header, applied>>

\* tasks.py:67-76: the chunking loop, reached when there is a valid row.
chunk_rows ==
    /\ step = "deduped"
    /\ ~IsEmpty(Len(deduped))
    /\ header' = Chunks(deduped)
    /\ step' = "chunked"
    /\ UNCHANGED tracker
    /\ UNCHANGED <<store, reader, deduped, applied>>

\* tasks.py:113-125: process_batch writes the chunk at position i. The
\* statement is atomic: when it raises, the store is as before.
bulk_create(i) ==
    /\ step \in {"chunked", "resubmitted"}
    /\ i \in DOMAIN header /\ i \notin applied
    /\ ~BulkCreateRaises(store, header[i])
    /\ store' = BulkCreate(store, header[i])
    /\ applied' = applied \cup {i}
    /\ UNCHANGED tracker
    /\ UNCHANGED <<reader, deduped, header, step>>

\* The same file is submitted again (views.py:77-103): lines 34-76 compute
\* the same chunks and every one of them is dispatched again.
resubmit ==
    /\ step = "chunked"
    /\ step' = "resubmitted"
    /\ applied' = {}
    /\ UNCHANGED tracker
    /\ UNCHANGED <<store, reader, deduped, header>>

DataNext ==
    \/ \E p \in FormProducts : product_create(p)
    \/ dedupe_rows
    \/ chunk_rows
    \/ \E i \in 1..MaxRows : bulk_create(i)
    \/ resubmit

DataSpec == DataInit /\ [][DataNext]_vars

\* ----------------------------------------------------------- specification
\* The positions a unit can have in a chord header.
UnitRange == 1..Cardinality(UNION {DOMAIN ChunksOf[path] : path \in Paths})

\* The steps of the pipeline of an uploaded job.
Pipeline ==
    \/ \E j \in Jobs, path \in Paths : upload_file(j, path)
    \/ \E j \in Jobs : job_status(j)
    \/ \E j \in Jobs : import_start(j)
    \/ \E j \in Jobs : import_empty(j)
    \/ \E j \in Jobs : import_dispatch(j)
    \/ \E j \in Jobs : import_fail(j)
    \/ \E j \in Jobs : \E u \in 1..Len(units[j]) : batch_create(j, u)
    \/ \E j \in Jobs : \E u \in 1..Len(units[j]) : batch_incr(j, u)
    \/ \E j \in Jobs : \E u \in 1..Len(units[j]) : batch_progress(j, u)
    \/ \E j \in Jobs : \E u \in 1..Len(units[j]) : batch_return(j, u)
    \/ \E j \in Jobs : \E u \in 1..Len(units[j]) : batch_fail(j, u)
    \/ \E j \in Jobs : finalize_start(j)
    \/ \E j \in Jobs : finalize_progress(j)
    \/ \E j \in Jobs : finalize_message(j)
    \/ \E j \in Jobs : finalize_webhooks(j)
    \/ \E j \in Jobs : finalize_fail(j)

Next ==
    \/ Pipeline
    \/ \E j \in Jobs, k \in Jobs : retry_import(j, k)
    \/ \E j \in Jobs : retry_import_not_found(j)

Spec == Init /\ [][Next]_vars

TypeOK ==
    /\ faults \in 0..MaxFaults
    /\ \A j \in Jobs : status[j] \in
          {NilStr, "queued", "parsing", "processing", "complete", "failed"}

\* The pipeline of a single uploaded job.
OneJobNext == Pipeline /\ \A j \in Jobs : j > 1 => status'[j] = NilStr

\* One job under fair workers: a worker eventually executes every task that is
\* queued or running, be it import_products_task, a process_batch unit or
\* finalize_import.
FairSpec ==
    /\ Init /\ [][OneJobNext]_vars
    /\ \A j \in Jobs :
          /\ WF_vars(import_start(j) \/ import_empty(j) \/ import_dispatch(j)
                     \/ import_fail(j))
          /\ WF_vars(finalize_start(j) \/ finalize_progress(j)
                     \/ finalize_message(j) \/ finalize_webhooks(j)
                     \/ finalize_fail(j))
          /\ \A u \in UnitRange :
                WF_vars(batch_create(j, u) \/ batch_incr(j, u) \/ batch_progress(j, u)
                        \/ batch_return(j, u) \/ batch_fail(j, u))

\* ------------------------------------------------------------------ claims
\* The chord of job j was dispatched (tasks.py:82).
Dispatched(j) == chord[j].state # "none"

UnitIds(j) == 1..Len(units[j])

\* Every unit of the job has ended for good: returned, or raised past the cap.
AllUnitsEnded(j) == \A u \in UnitIds(j) : units[j][u].pc \in {"done", "failed"}

AllUnitsDone(j) == \A u \in UnitIds(j) : units[j][u].pc = "done"

\* A record of a batch is in the store with the batch's name and description.
Stored(st, r) ==
    \E p \in st : p.sku = r.sku /\ p.name = r.name /\ p.description = r.description

BatchStored(st, batch) == \A i \in 1..Len(batch) : Stored(st, batch[i])

\* C1: for every job whose units were dispatched, finalize_import has executed
\* exactly once by the time nothing of the job is left to run.
C1_FinalizeExactlyOnce ==
    \A j \in Jobs : (Dispatched(j) /\ ~InFlight(j)) => fin[j].runs = 1

\* C2: a job's status is "complete", or finalize_import holds results, only if
\* every unit of the job has returned; the results are the counts of all units.
C2_CompleteOnlyAfterAllUnits ==
    \A j \in Jobs :
        /\ status[j] = "complete" => Dispatched(j) /\ AllUnitsDone(j)
        /\ fin[j].pc \in {"queued", "status", "progress", "message"} =>
              /\ AllUnitsDone(j)
              /\ fin[j].results = [u \in UnitIds(j) |-> Len(units[j][u].batch)]

\* C2 witness: a two-unit job is complete.
C2_Witness == \E j \in Jobs : status[j] = "complete" /\ Len(units[j]) = 2

\* C3: the published progress of a job never decreases.
C3_ProgressNeverDecreases ==
    [][\A j \in Jobs : progress[j] # NilInt => progress'[j] >= progress[j]]_vars

\* C4: progress is 100 only when every unit of the job has applied its records.
C4_HundredOnlyOnFullSuccess ==
    \A j \in Jobs :
        progress[j] = 100 => \A u \in UnitIds(j) : units[j][u].applied

\* C5: processed never exceeds total, and progress stays within 0..100.
C5_ProcessedAtMostTotal ==
    \A j \in Jobs :
        total[j] # NilInt => processed[j] <= total[j] /\ progress[j] \in 0..100

\* C6: once finalize_import has aggregated, and while the job is complete, the
\* sum of the units' counts equals the processed counter and the total.
C6_SumEqualsProcessedEqualsTotal ==
    \A j \in Jobs :
        /\ fin[j].pc \in {"status", "progress", "message"} =>
              Sum(fin[j].results) = processed[j]
        /\ status[j] = "complete" =>
              /\ processed[j] = total[j]
              /\ Sum([u \in UnitIds(j) |-> Len(units[j][u].batch)]) = processed[j]
        /\ (message[j] # <<>> /\ message[j][1] = "Import complete") =>
              message[j][2] = processed[j]

\* C6 witness: a two-unit job is complete and its message carries the sum.
C6_Witness ==
    \E j \in Jobs :
        /\ status[j] = "complete" /\ Len(units[j]) = 2
        /\ message[j] = <<"Import complete", 3>>

\* C7: when a unit has failed for good and all units have ended,
\* finalize_import has been called for the job.
C7_FinalizeRunsAfterTerminalFailure ==
    \A j \in Jobs :
        (AllUnitsEnded(j) /\ \E u \in UnitIds(j) : units[j][u].pc = "failed")
            => fin[j].pc # "none"

\* C8: a job with nothing left to run has a terminal status.
C8_QuiescentJobIsTerminal ==
    \A j \in Jobs :
        (status[j] # NilStr /\ ~InFlight(j)) => status[j] \in {"complete", "failed"}

\* C9: a unit is given up only after more than max_retries failed executions;
\* a re-sent unit eventually returns unless it fails that often; and the
\* bulk_create of every execution leaves all the unit's records in the store.
C9_RetriedUnitSucceeds ==
    /\ [](\A j \in Jobs : \A u \in UnitIds(j) :
            units[j][u].pc = "failed" => units[j][u].fails > max_retries)
    /\ \A j \in Jobs : \A u \in UnitRange :
          (u \in UnitIds(j) /\ units[j][u].retries > 0)
              ~> (u \in UnitIds(j)
                  /\ (units[j][u].pc = "done" \/ units[j][u].fails > max_retries))
    /\ [][\A j \in Jobs : \A u \in UnitIds(j) :
            (u \in DOMAIN units'[j] /\ units[j][u].pc = "queued"
             /\ units'[j][u].pc = "created")
                => BatchStored(store', units[j][u].batch)]_vars

\* C9 witness: a unit that failed twice has returned with its records stored.
C9_Witness ==
    \E j \in Jobs : \E u \in UnitIds(j) :
        /\ units[j][u].pc = "done" /\ units[j][u].fails = 2
        /\ BatchStored(store, units[j][u].batch)

\* A unit that is retrying or has been given up.
Troubled(unit) == unit.retries > 0 \/ unit.pc = "failed"

\* C10: a step of a failing, retrying or given-up unit changes no other unit of
\* the job, removes none of their stored records and takes nothing off the
\* counter; and next to such a unit every other unit can still take its step,
\* its bulk_create stores all its records and its incrby adds its whole count.
C10_TroubledUnitLeavesOthersAlone ==
    /\ [][\A j \in Jobs : \A u, v \in UnitIds(j) :
            (u # v /\ u \in DOMAIN units'[j] /\ v \in DOMAIN units'[j]
             /\ units'[j][u] # units[j][u]
             /\ (Troubled(units[j][u]) \/ Troubled(units'[j][u])))
                => /\ units'[j][v] = units[j][v]
                   /\ processed'[j] >= processed[j]
                   /\ \A i \in 1..Len(units[j][v].batch) :
                         Stored(store, units[j][v].batch[i])
                            => Stored(store', units[j][v].batch[i])]_vars
    /\ [][\A j \in Jobs : \A u, v \in UnitIds(j) :
            (u # v /\ v \in DOMAIN units'[j] /\ Troubled(units[j][u]))
                => /\ (units[j][v].pc = "queued" /\ units'[j][v].pc = "created")
                         => BatchStored(store', units[j][v].batch)
                   /\ (units[j][v].pc = "created" /\ units'[j][v].pc = "incremented")
                         => processed'[j] = processed[j] + Len(units[j][v].batch)]_vars
    /\ [](\A j \in Jobs : \A u, v \in UnitIds(j) :
            (u # v /\ Troubled(units[j][u])
             /\ units[j][v].pc \in {"queued", "created", "incremented", "published"})
                => ENABLED (batch_create(j, v) \/ batch_incr(j, v)
                            \/ batch_progress(j, v) \/ batch_return(j, v)))

\* C10 witness: one unit was given up, the other returned with its records
\* stored and its count on the counter.
C10_Witness ==
    \E j \in Jobs : \E u, v \in UnitIds(j) :
        /\ units[j][u].pc = "failed" /\ units[j][v].pc = "done"
        /\ BatchStored(store, units[j][v].batch)
        /\ processed[j] >= Len(units[j][v].batch)

\* The file of job j yields no valid row.
EmptySource(j) == filepath[j] # NilStr /\ Len(UniqueRowsOf[filepath[j]]) = 0

\* C14: for a job whose source yields zero valid rows, no unit is ever
\* dispatched and finalize_import never runs, and once import_products_task has
\* ended the status is "failed" with the empty-input message (or with the
\* error of open() when the last attempt could not read the file).
C14_EmptyInputFailsWithoutUnits ==
    \A j \in Jobs :
        EmptySource(j) =>
            /\ units[j] = <<>> /\ chord[j].state = "none"
            /\ fin[j].pc = "none" /\ fin[j].runs = 0
            /\ status[j] # "processing" /\ status[j] # "complete"
            /\ master[j].pc = "done" =>
                  /\ status[j] = "failed"
                  /\ \/ message[j] = <<"Empty file or invalid">>
                     \/ message[j] = <<"error">> /\ master[j].retries = max_retries

\* C14 witness: an empty source was parsed and failed with the empty message.
C14_Witness ==
    \E j \in Jobs :
        /\ EmptySource(j) /\ master[j].pc = "done"
        /\ status[j] = "failed" /\ message[j] = <<"Empty file or invalid">>

\* C18: the delay of the k-th retry of a unit is 2^(k-1) seconds, twice that of
\* the retry before; a unit is executed at most max_retries + 1 times; and a
\* unit that was given up is never executed again.
C18_BackoffDoublesAndCapped ==
    /\ [](\A j \in Jobs : \A u \in UnitIds(j) :
            /\ units[j][u].retries \in 0..max_retries
            /\ units[j][u].retries > 0 =>
                  units[j][u].countdown = 2 ^ (units[j][u].retries - 1)
            /\ units[j][u].fails + (IF units[j][u].pc = "done" THEN 1 ELSE 0)
                  <= max_retries + 1)
    /\ [][\A j \in Jobs : \A u \in UnitIds(j) :
            /\ (u \in DOMAIN units'[j] /\ units'[j][u].retries # units[j][u].retries
                /\ units[j][u].retries > 0)
                  => units'[j][u].countdown = 2 * units[j][u].countdown
            /\ units[j][u].pc = "failed"
                  => (u \in DOMAIN units'[j] /\ units'[j][u] = units[j][u])]_vars

\* C18 witness: a unit was given up after its third retry, sent with 4 seconds.
C18_Witness ==
    \E j \in Jobs : \E u \in UnitIds(j) :
        /\ units[j][u].pc = "failed" /\ units[j][u].retries = max_retries
        /\ units[j][u].countdown = 4 /\ units[j][u].fails = max_retries + 1

\* The statuses in pipeline order.
Rank(st) ==
    CASE st = NilStr -> 0
      [] st = "queued" -> 1
      [] st = "parsing" -> 2
      [] st = "processing" -> 3
      [] OTHER -> 4

\* C20: the status of a job only moves forward along
\* queued -> parsing -> processing -> complete or failed, and a terminal status
\* is never changed.
C20_StatusForwardAndTerminalAbsorbing ==
    [][\A j \in Jobs :
          /\ Rank(status'[j]) >= Rank(status[j])
          /\ status[j] \in {"complete", "failed"} => status'[j] = status[j]]_vars

\* C15: the step of finalize_import that posts to the webhooks leaves the
\* status "complete" and the progress and message as they were, whatever the
\* posts do; each enabled hook is posted to once and never again; and a disabled
\* hook or a hook of another event is not posted to.
C15_DeliveryFailureLeavesJobAlone ==
    /\ [][\A j \in Jobs :
            posts'[j] # posts[j] =>
                /\ posts[j] = <<>>
                /\ status[j] = "complete" /\ status'[j] = "complete"
                /\ progress'[j] = progress[j] /\ message'[j] = message[j]
                /\ processed'[j] = processed[j] /\ total'[j] = total[j]
                /\ master' = master /\ units' = units /\ fin'[j].pc = "done"
                /\ [i \in 1..Len(posts'[j]) |-> posts'[j][i].hook] = <<1, 2>>]_vars
    /\ [](\A j \in Jobs :
            (\E i \in 1..Len(posts[j]) : posts[j][i].outcome = "exception")
                => status[j] = "complete" /\ progress[j] = 100 /\ fin[j].pc = "done")

\* C15 witness: the post to the first hook raised, the second was still made,
\* and the job is complete.
C15_Witness ==
    \E j \in Jobs :
        /\ Len(posts[j]) = 2
        /\ posts[j][1].outcome = "exception" /\ posts[j][2].outcome = "response"
        /\ status[j] = "complete" /\ message[j] = <<"Import complete", 3>>

\* C19: for a job id that was never submitted job_status answers 200 with
\* status "unknown", progress 0 and an empty message, and the view changes
\* nothing.
C19_UnknownJobStatus ==
    /\ [](\A j \in Jobs :
            filepath[j] = NilStr =>
                JobStatusResponse(j) =
                    [code |-> 200, status |-> "unknown", progress |-> 0, message |-> <<>>])
    /\ [][\A j \in Jobs : job_status(j) => UNCHANGED vars]_vars

\* C19 witness: one job was submitted and completed, the other id is unknown.
C19_Witness ==
    /\ status[1] = "complete" /\ filepath[2] = NilStr
    /\ JobStatusResponse(1).status = "complete"
    /\ JobStatusResponse(2).status = "unknown"

RECURSIVE ApplyAll(_, _)
\* The store after the chunks cs were applied to st one after the other.
ApplyAll(st, cs) == IF cs = <<>> THEN st ELSE ApplyAll(BulkCreate(st, Head(cs)), Tail(cs))

\* The store one import of each file leaves when it starts from an empty store.
StoreOnce == [path \in Paths |-> ApplyAll({}, ChunksOf[path])]

\* The records of a store as (key, name, description).
Records(st) == {[sku |-> p.sku, name |-> p.name, description |-> p.description] : p \in st}

\* Every unit of job j has written its records at least once.
AllApplied(j) == Dispatched(j) /\ \A u \in UnitIds(j) : units[j][u].applied

\* C12: while every submitted job reads the same file, from the moment one job
\* has written all its units the store holds exactly the records one import of
\* the file leaves, however many further jobs or re-executed units write the
\* file again.
C12_ResubmissionIsIdempotent ==
    \A path \in Paths :
        ( /\ \A k \in Jobs : filepath[k] \in {NilStr, path}
          /\ \E j \in Jobs : AllApplied(j) )
            => Records(store) = Records(StoreOnce[path])

\* C12 witness: a file with a repeated key was imported by a job that
\* completed and again by a second job on the same file, whose unit ran
\* bulk_create, failed later, was re-executed and returned.
C12_Witness ==
    /\ filepath[1] = "overlap" /\ filepath[2] = "overlap"
    /\ status[1] = "complete"
    /\ \E u \in UnitIds(2) : units[2][u].pc = "done" /\ units[2][u].fails > 0
    /\ Records(store) = Records(StoreOnce["overlap"])
    /\ Cardinality(store) = 2

\* What lines 39-49 make of each row a reader can yield.
Parsed == [row \in RowSet |-> ParseRow(row)]

\* The case-folded key a reader row contributes, or the empty text when the
\* row is skipped.
KeyOf(row) == IF Parsed[row] = <<>> THEN <<>> ELSE Parsed[row][1].sku

\* The positions of the rows of the reader with key k.
Occurrences(k) == {i \in 1..Len(reader) : KeyOf(reader[i]) = k}

\* The position of the last row of the reader with key k.
LastOccurrence(k) == CHOOSE i \in Occurrences(k) : \A o \in Occurrences(k) : o <= i

ReaderKeys == {KeyOf(reader[i]) : i \in 1..Len(reader)} \ {<<>>}

\* Every chunk of the run has been written.
RunApplied == step \in {"chunked", "resubmitted"} /\ applied = DOMAIN header

\* C11: for every reader, the deduplicated rows hold exactly one record per key
\* of the reader, with the name and description of the last row with that key;
\* and once every chunk has been written the stored record of each key carries
\* that name and description, in whatever order the chunks were written.
C11_LastOccurrenceWins ==
    /\ step \in {"deduped", "chunked", "resubmitted"} =>
          /\ {deduped[i].sku : i \in 1..Len(deduped)} = ReaderKeys
          /\ Len(deduped) = Cardinality(ReaderKeys)
          /\ \A i \in 1..Len(deduped) :
                deduped[i] = Parsed[reader[LastOccurrence(deduped[i].sku)]][1]
    /\ RunApplied =>
          \A k \in ReaderKeys :
              \E p \in store :
                  /\ p.sku = k
                  /\ p.name = Parsed[reader[LastOccurrence(k)]][1].name
                  /\ p.description = Parsed[reader[LastOccurrence(k)]][1].description

\* C11 witness: a key occurs twice with different names, in rows that another
\* key separates, the records went to two chunks and all were written.
C11_Witness ==
    /\ RunApplied /\ Len(header) = 2 /\ Len(reader) = 4
    /\ KeyOf(reader[1]) = <<"a", "1">> /\ KeyOf(reader[4]) = <<"a", "1">>
    /\ reader[1] # reader[4]
    /\ \E p \in store : p.sku = <<"a", "1">> /\ p.name = <<"V">>

\* C13: no two stored products have keys that are equal ignoring case.
C13_OneProductPerFoldedKey ==
    \A p \in store : \A q \in store : Lower(p.sku) = Lower(q.sku) => p = q

\* C13 witness: the form product A1 is stored, the chunks were dispatched
\* twice, and the chunk holding a1 is refused while the other was written.
C13_Witness ==
    /\ step = "resubmitted" /\ Len(header) = 2 /\ Cardinality(applied) = 1
    /\ \E p \in store : p.sku = <<"A", "1">>
    /\ \E i \in DOMAIN header : i \notin applied /\ BulkCreateRaises(store, header[i])

\* The keys of a batch.
BatchKeys(batch) == {batch[i].sku : i \in 1..Len(batch)}

\* C16: a step that writes a chunk overwrites name and description of the
\* stored products whose key is in the chunk and leaves their active flag,
\* inserts the records whose key is absent, and leaves every other product.
C16_UpsertTouchesOnlyNameAndDescription ==
    [][\A i \in DOMAIN header :
          (i \notin applied /\ applied' = applied \cup {i}) =>
              /\ \A p \in store :
                    IF p.sku \in BatchKeys(header[i])
                    THEN \E r \in {header[i][n] : n \in 1..Len(header[i])} :
                            /\ r.sku = p.sku
                            /\ [p EXCEPT !.name = r.name,
                                         !.description = r.description] \in store'
                    ELSE p \in store'
              /\ \A n \in 1..Len(header[i]) :
                    (~\E p \in store : p.sku = header[i][n].sku) =>
                        [sku |-> header[i][n].sku, name |-> header[i][n].name,
                         description |-> header[i][n].description,
                         active |-> TRUE] \in store'
              /\ {p.sku : p \in store'} = {p.sku : p \in store} \cup BatchKeys(header[i])
              /\ Cardinality(store') = Cardinality({p.sku : p \in store'})]_vars

\* C16 witness: the inactive form product b1 was overwritten by a chunk and is
\* still inactive, next to an inserted record.
C16_Witness ==
    /\ applied # {}
    /\ \E p \in store : p.sku = <<"b", "1">> /\ p.name = <<"X">> /\ ~p.active
    /\ \E p \in store : p.sku = <<"a", "1">> /\ p.active

\* C17: the chunking loop yields ceil(n / CHUNK_SIZE) chunks for n records,
\* none empty or longer than CHUNK_SIZE, all but the last of CHUNK_SIZE
\* records, which put one after the other are the n records.
C17_ChunksPartitionTheRecords ==
    step \in {"chunked", "resubmitted"} =>
        /\ Len(header) = (Len(deduped) + CHUNK_SIZE - 1) \div CHUNK_SIZE
        /\ \A i \in 1..Len(header) :
              /\ Len(header[i]) \in 1..CHUNK_SIZE
              /\ i < Len(header) => Len(header[i]) = CHUNK_SIZE
        /\ \A n \in 1..Len(deduped) :
              /\ ((n - 1) \div CHUNK_SIZE) + 1 \in DOMAIN header
              /\ ((n - 1) % CHUNK_SIZE) + 1 \in DOMAIN header[((n - 1) \div CHUNK_SIZE) + 1]
              /\ header[((n - 1) \div CHUNK_SIZE) + 1][((n - 1) % CHUNK_SIZE) + 1] = deduped[n]
        /\ Len(deduped) = Sum([i \in 1..Len(header) |-> Len(header[i])])

\* C17 witness: five records in three chunks, the last of one record.
C17_Witness ==
    /\ step = "chunked" /\ Len(deduped) = 5 /\ Len(header) = 3
    /\ Len(header[3]) = 1

TrackerOf(j) ==
    <<status[j], progress[j], message[j], processed[j], total[j], filepath[j]>>

\* A step of retry_import creates job k: only it writes "Queued (retry)".
RetryCreates(k) == status[k] = NilStr /\ message'[k] = <<"Queued (retry)">>

\* C22: a step of retry_import creates one job under an unused id, "queued"
\* with progress 0 and processed 0, on the file reference of an existing job, and
\* changes no tracker field of any other job nor the store, units or chords;
\* the job it created is dispatched with all chunks of that file; and for an id
\* without file reference the view answers 400 and no job is created.
C22_RetryImportCreatesFreshJob ==
    /\ [][\A k \in Jobs :
            RetryCreates(k) =>
                /\ status'[k] = "queued" /\ progress'[k] = 0 /\ processed'[k] = 0
                /\ total'[k] = NilInt
                /\ master'[k] = [pc |-> "queued", retries |-> 0]
                /\ \E j \in Jobs \ {k} :
                      /\ filepath[j] # NilStr /\ RetryImportResponse(j) = 200
                      /\ filepath'[k] = filepath[j]
                /\ \A i \in Jobs \ {k} :
                      /\ TrackerOf(i)' = TrackerOf(i)
                      /\ master'[i] = master[i]
                /\ UNCHANGED <<store, units, chord, fin, posts>>]_vars
    /\ [](\A k \in Jobs :
            /\ Dispatched(k) =>
                  /\ [u \in UnitIds(k) |-> units[k][u].batch] = ChunksOf[filepath[k]]
                  /\ total[k] = Len(UniqueRowsOf[filepath[k]])
            /\ filepath[k] = NilStr =>
                  /\ RetryImportResponse(k) = 400
                  /\ status[k] = NilStr /\ master[k].pc = "none")
    /\ [][(\A j \in Jobs : filepath[j] = NilStr) =>
              \A k \in Jobs : ~RetryCreates(k)]_vars

\* C22 witness: retry_import has just created job 2 on the file of the
\* completed job 1, which still shows its final values.
C22_Witness ==
    /\ filepath[1] = "three" /\ filepath[2] = "three"
    /\ status[1] = "complete" /\ progress[1] = 100
    /\ message[1] = <<"Import complete", 3>> /\ processed[1] = 3 /\ total[1] = 3
    /\ status[2] = "queued" /\ message[2] = <<"Queued (retry)">>
    /\ processed[2] = 0 /\ master[2].pc = "queued"

====
